---- MODULE Spec2Model ----
(***************************************************************************)
(* Model of app/sensors/repository.py: the sensor coordinator over three   *)
(* stores (PostgreSQL identity rows, MongoDB catalog documents, Redis live *)
(* readings).  Every store call is one atomic step; the calls of different *)
(* requests interleave freely, as no lock spans two store calls.           *)
(***************************************************************************)
EXTENDS Integers, Sequences, FiniteSets, TLC

\* ------------------------------------------------------------ bounds
NumClients == 2
MaxSensors == 2
MaxOps == 3

\* the requests that may be in flight at once
Clients == 1..NumClients
SensorIds == 1..MaxSensors

\* ------------------------------------------------------------ input domains
Points == {<<1, 0>>}
Radii == {0, 1}

\* schemas.SensorCreate, as far as create_sensor reads it
SensorCreate ==
  { [name |-> "s1", type |-> "t", longitude |-> 1, latitude |-> 0],
    [name |-> "s2", type |-> "t", longitude |-> 0, latitude |-> 0] }

\* data.dict(): the telemetry payloads a caller may send
SensorData ==
  { [temperature |-> 2, humidity |-> 5],
    [id |-> 99, name |-> "px", temperature |-> 3] }

\* the field names a payload may use, in the order data.dict() lists them
KeyOrder == <<"id", "name", "temperature", "humidity">>

\* ------------------------------------------------------------ values
\* Python's None for an identity row (ids are assigned from 1 upwards)
None == [id |-> 0, name |-> ""]

\* redis.get on a missing key
Nil == <<<<"nil">>>>

\* the outcome of a request: a returned value, or the exception that left it
NoResult == [kind |-> "none", exc |-> "", status |-> 0, detail |-> "", value |-> <<>>]
Return(v) == [kind |-> "return", exc |-> "", status |-> 0, detail |-> "", value |-> v]
Raise(e, s, d) == [kind |-> "raise", exc |-> e, status |-> s, detail |-> d, value |-> <<>>]

\* raise HTTPException(status_code=404, detail="Sensor not found")
HTTP404 == Raise("HTTPException", 404, "Sensor not found")
\* None.decode() and None.__dict__: 'NoneType' object has no attribute attr
AttributeError(attr) == Raise("AttributeError", 0, attr)
\* json.loads on a value that is no JSON document
JSONDecodeError == Raise("JSONDecodeError", 0, "")

\* ------------------------------------------------------------ json
\* json.dumps of a dict: the members as text, key after key
RECURSIVE DumpFrom(_, _)
DumpFrom(d, i) ==
  IF i > Len(KeyOrder) THEN <<>>
  ELSE IF KeyOrder[i] \in DOMAIN d
       THEN <<<<KeyOrder[i], d[KeyOrder[i]]>>>> \o DumpFrom(d, i + 1)
       ELSE DumpFrom(d, i + 1)

json_dumps(d) == DumpFrom(d, 1)

\* a text json.loads accepts: a sequence of key/value members
IsJson(s) == \A i \in DOMAIN s : Len(s[i]) = 2

\* json.loads of an accepted text: the dict, a repeated key keeping its last value
json_loads(s) ==
  [k \in {s[i][1] : i \in DOMAIN s} |->
     s[CHOOSE i \in DOMAIN s :
         /\ s[i][1] = k
         /\ \A j \in DOMAIN s : s[j][1] = k => j <= i][2]]

\* d with d[k] = v set (a Python item assignment)
SetItem(d, k, v) == [x \in DOMAIN d \cup {k} |-> IF x = k THEN v ELSE d[x]]

\* {**a, **b}: b wins on a shared key
Merge(a, b) == [x \in DOMAIN a \cup DOMAIN b |-> IF x \in DOMAIN b THEN b[x] ELSE a[x]]

\* ------------------------------------------------------------ stores
\* a key that leaves the sensor id out
Key_no_id(sensor_id) == <<"sensor", 0, "data">>

\* f"sensor:{sensor_id}:data"
Key(sensor_id) == <<"sensor", sensor_id, "data">>

\* a query without its filter: the first row of the table
get_sensor_unfiltered(db, sensor_id) ==
  IF DOMAIN db = {} THEN None
  ELSE LET id == CHOOSE k \in DOMAIN db : \A j \in DOMAIN db : k <= j
       IN [id |-> id, name |-> db[id]]

\* db.query(models.Sensor).filter(models.Sensor.id == sensor_id).first()
get_sensor(db, sensor_id) ==
  IF sensor_id \in DOMAIN db THEN [id |-> sensor_id, name |-> db[sensor_id]] ELSE None

\* redis.get(key)
redis_get(r, key) == IF key \in DOMAIN r THEN r[key] ELSE Nil

\* a redis.set that keeps a value the key already holds (set with nx=True)
redis_set_nx(r, key, value) ==
  [k \in DOMAIN r \cup {key} |-> IF k \in DOMAIN r THEN r[k] ELSE value]

\* redis.set(key, value): the key holds exactly value afterwards
redis_set(r, key, value) == [k \in DOMAIN r \cup {key} |-> IF k = key THEN value ELSE r[k]]

\* a redis.delete of the bare id instead of the sensor's key: the key stays
redis_delete_bare_id(r, key) == r

\* redis.delete(key)
redis_delete(r, key) == [k \in DOMAIN r \ {key} |-> r[k]]

\* a delete_one whose filter names a field no document has: nothing matches
delete_one_no_match(coll, id) == coll

\* a delete_one with an empty filter: the first document goes, whatever its id_sensor
delete_one_unfiltered(coll, id) == IF coll = <<>> THEN <<>> ELSE Tail(coll)

\* collection.delete_one(filter): the first matching document goes, if any
RECURSIVE delete_one(_, _)
delete_one(coll, id) ==
  IF coll = <<>> THEN <<>>
  ELSE IF Head(coll).id_sensor = id THEN Tail(coll)
       ELSE <<Head(coll)>> \o delete_one(Tail(coll), id)

\* squared planar distance between two [longitude, latitude] points
Dist2(a, b) == (a[1] - b[1]) * (a[1] - b[1]) + (a[2] - b[2]) * (a[2] - b[2])

\* the documents within the radius of the point
InRange(coll, pt, radius) ==
  SelectSeq(coll, LAMBDA d : Dist2(d.location.coordinates, pt) <= radius * radius)

\* insertion of a document into a nearest-first list
RECURSIVE InsertNear(_, _, _)
InsertNear(sorted, d, pt) ==
  IF sorted = <<>> THEN <<d>>
  ELSE IF Dist2(d.location.coordinates, pt) < Dist2(Head(sorted).location.coordinates, pt)
       THEN <<d>> \o sorted
       ELSE <<Head(sorted)>> \o InsertNear(Tail(sorted), d, pt)

RECURSIVE SortNear(_, _)
SortNear(coll, pt) ==
  IF coll = <<>> THEN <<>>
  ELSE InsertNear(SortNear(SubSeq(coll, 1, Len(coll) - 1), pt), coll[Len(coll)], pt)

\* collection.find({"location": {"$near": {"$geometry": point, "$maxDistance": radius}}})
find_near(coll, pt, radius) == SortNear(InRange(coll, pt, radius), pt)

\* ------------------------------------------------------------ state
VARIABLES
  identity,   \* PostgreSQL table sensors: id -> name
  nextId,     \* the id the table assigns to its next row
  catalog,    \* MongoDB collection "sensors": the documents in insertion order
  cache,      \* Redis: key -> stored text
  call,       \* per client: the request it is running, its locals and its outcome
  ops,        \* requests started so far
  lastWrite,  \* history: per sensor id, <<P>> for the payload last recorded and not deleted since
  created,    \* history: the name each id was assigned at creation
  disturbed,  \* history: per client, whether another request wrote under its delete's id meanwhile
  raced,      \* history: the ids whose create_sensor ran while a delete_sensor of the id ran
  deleted     \* history: the ids whose delete_sensor has returned the row

vars ==
  <<identity, nextId, catalog, cache, call, ops, lastWrite, created, disturbed, raced, deleted>>

NoSensor == [name |-> "", type |-> "", longitude |-> 0, latitude |-> 0]
NoQuery == [latitude |-> 0, longitude |-> 0, radius |-> 0, coordinates |-> <<0, 0>>]

Idle ==
  [op |-> "none", pc |-> "idle", sensor_id |-> 0, sensor |-> NoSensor, data |-> <<>>,
   query |-> NoQuery, db_sensor |-> None, nearby_sensors |-> <<>>, i |-> 0,
   sensor_dict |-> <<>>, sensors |-> <<>>, had |-> {}, issued |-> <<>>, failed |-> "",
   result |-> NoResult]

Running(p) == call[p].pc \notin {"idle", "done"}

\* a new request runs in the lowest free slot
CanStart(p) ==
  /\ ~Running(p)
  /\ \A q \in Clients : q < p => Running(q)
  /\ ops < MaxOps

\* the slots after client p's step leaves it as c: an outcome is visible in the state
\* its request ends in, and handed over (the slot idle again) at the next step
Step(p, c) ==
  [q \in Clients |-> IF q = p THEN c ELSE IF call[q].pc = "done" THEN Idle ELSE call[q]]

\* the request of client p ends with outcome r; its locals are dropped
Finish(c, r) ==
  [Idle EXCEPT !.op = c.op, !.pc = "done", !.sensor_id = c.sensor_id, !.sensor = c.sensor,
               !.data = c.data, !.query = c.query, !.db_sensor = c.db_sensor,
               !.nearby_sensors = c.nearby_sensors, !.i = c.i, !.had = c.had,
               !.issued = c.issued, !.failed = c.failed, !.result = r]

\* request c issues the store call named name
Issue(c, name) == [c EXCEPT !.issued = Append(c.issued, name)]

\* a store write under sensor id by client p: every other running request on id is disturbed
Touch(p, id) ==
  [q \in Clients |->
     IF q # p /\ Running(q) /\ call[q].op = "delete_sensor" /\ call[q].sensor_id = id
     THEN TRUE ELSE disturbed[q]]

\* client p starts a delete_sensor of id while the create_sensor of id is running, or
\* commits the row of id while a delete_sensor of id is running
Race(p, id) ==
  IF \E q \in Clients \ {p} :
       \/ call[q].op = "create_sensor" /\ call[q].pc = "insert_one" /\ call[q].db_sensor.id = id
       \/ call[q].op = "delete_sensor" /\ Running(q) /\ call[q].sensor_id = id
  THEN raced \cup {id} ELSE raced

\* the stores that hold an entry under id
Holding(id) ==
  (IF id \in DOMAIN identity THEN {"identity"} ELSE {})
    \cup (IF \E n \in DOMAIN catalog : catalog[n].id_sensor = id THEN {"catalog"} ELSE {})
    \cup (IF Key(id) \in DOMAIN cache THEN {"cache"} ELSE {})

\* a document built before db.refresh has loaded the row's id
document_sensor_data_no_id(db_sensor, sensor) ==
  [id_sensor |-> 0, type |-> sensor.type,
   location |-> [type |-> "Point", coordinates |-> <<sensor.longitude, sensor.latitude>>]]

\* the MongoDB document create_sensor builds for the committed row
document_sensor_data(db_sensor, sensor) ==
  [id_sensor |-> db_sensor.id, type |-> sensor.type,
   location |-> [type |-> "Point", coordinates |-> <<sensor.longitude, sensor.latitude>>]]

\* the stores as the first request finds them, with no sensor yet
InitEmpty ==
  /\ identity = <<>>
  /\ nextId = 1
  /\ catalog = <<>>
  /\ cache = <<>>
  /\ lastWrite = [id \in SensorIds |-> <<>>]
  /\ created = <<>>

\* the k-th sensor and payload that earlier requests sent
SeedSensor(k) == CHOOSE sensor \in SensorCreate : sensor.longitude = (k + 1) % 2
SeedData(k) == CHOOSE data \in SensorData : ("humidity" \in DOMAIN data) <=> (k % 2 = 0)

\* the stores as earlier requests left them: create_sensor twice, then record_data
\* once per sensor, one after the other
InitSeeded ==
  /\ identity = [id \in {1, 2} |-> SeedSensor(id).name]
  /\ nextId = 3
  /\ catalog = [id \in {1, 2} |->
                  document_sensor_data([id |-> id, name |-> SeedSensor(id).name],
                                       SeedSensor(id))]
  /\ cache = [k \in {Key(1), Key(2)} |-> json_dumps(SeedData(k[2]))]
  /\ lastWrite = [id \in SensorIds |-> IF id \in {1, 2} THEN <<SeedData(id)>> ELSE <<>>]
  /\ created = identity

Init ==
  /\ InitEmpty \/ InitSeeded
  /\ call = [p \in Clients |-> Idle]
  /\ ops = 0
  /\ disturbed = [p \in Clients |-> FALSE]
  /\ raced = {}
  /\ deleted = {}

\* ------------------------------------------------------------ create_sensor
\* a db.add that is never committed: no row
db_add_uncommitted(db, id, name) == db

\* db.add(db_sensor); db.commit(); db.refresh(db_sensor)
db_add(db, id, name) == [k \in DOMAIN db \cup {id} |-> IF k = id THEN name ELSE db[k]]

\* db.add, db.commit, db.refresh: the row exists with a fresh id
CreateSensorCommit(p) ==
  /\ CanStart(p)
  /\ nextId <= MaxSensors
  /\ \E sensor \in SensorCreate :
       /\ identity' = db_add(identity, nextId, sensor.name)
       /\ created' = [id \in DOMAIN created \cup {nextId} |->
                        IF id = nextId THEN sensor.name ELSE created[id]]
       /\ call' = Step(p,
                     Issue([Idle EXCEPT !.op = "create_sensor", !.pc = "insert_one",
                                        !.sensor = sensor,
                                        !.db_sensor = [id |-> nextId, name |-> sensor.name]],
                           "db.commit"))
  /\ nextId' = nextId + 1
  /\ ops' = ops + 1
  /\ disturbed' = [Touch(p, nextId) EXCEPT ![p] = FALSE]
  /\ raced' = Race(p, nextId)
  /\ UNCHANGED <<catalog, cache, lastWrite, deleted>>

\* mongodb_collection.insert_one(document_sensor_data); return db_sensor
CreateSensorInsert(p) ==
  /\ call[p].op = "create_sensor" /\ call[p].pc = "insert_one"
  /\ catalog' = Append(catalog, document_sensor_data(call[p].db_sensor, call[p].sensor))
  /\ call' = Step(p, Finish(Issue(call[p], "insert_one"), Return(call[p].db_sensor)))
  /\ disturbed' = Touch(p, call[p].db_sensor.id)
  /\ UNCHANGED <<identity, nextId, cache, ops, lastWrite, created, raced, deleted>>

\* ------------------------------------------------------------ record_data
\* redis.set(f"sensor:{sensor_id}:data", json.dumps(data.dict()))
RecordData(p) ==
  /\ CanStart(p)
  /\ \E sensor_id \in SensorIds, data \in SensorData :
       /\ cache' = redis_set(cache, Key(sensor_id), json_dumps(data))
       /\ lastWrite' = [lastWrite EXCEPT ![sensor_id] = <<data>>]
       /\ call' = Step(p,
                     Finish(Issue([Idle EXCEPT !.op = "record_data",
                                               !.sensor_id = sensor_id, !.data = data],
                                  "redis.set"), Return(TRUE)))
       /\ disturbed' = [Touch(p, sensor_id) EXCEPT ![p] = FALSE]
  /\ ops' = ops + 1
  /\ UNCHANGED <<identity, nextId, catalog, created, raced, deleted>>

\* ------------------------------------------------------------ get_data
\* get_data without the assignment of the row's name
get_data_read_no_name(db_sensor, sensorDataDB) ==
  IF sensorDataDB = Nil THEN AttributeError("decode")
  ELSE IF ~IsJson(sensorDataDB) THEN JSONDecodeError
  ELSE Return(SetItem(json_loads(sensorDataDB), "id", db_sensor.id))

\* get_data after its 404 check: decode, parse, overlay id and name
get_data_read(db_sensor, sensorDataDB) ==
  IF sensorDataDB = Nil THEN AttributeError("decode")
  ELSE IF ~IsJson(sensorDataDB) THEN JSONDecodeError
  ELSE Return(SetItem(SetItem(json_loads(sensorDataDB), "id", db_sensor.id),
                      "name", db_sensor.name))

\* get_data without its check of the row
get_data_missing_unchecked(db_sensor) == FALSE

\* if db_sensor is None (get_data)
get_data_missing(db_sensor) == db_sensor = None

\* db_sensor = get_sensor(db, sensor_id); 404 when there is no row
GetDataLookup(p) ==
  /\ CanStart(p)
  /\ \E sensor_id \in SensorIds :
       LET db_sensor == get_sensor(identity, sensor_id)
           c == Issue([Idle EXCEPT !.op = "get_data", !.pc = "redis_get",
                                   !.sensor_id = sensor_id, !.db_sensor = db_sensor],
                      "db.query")
       IN call' = Step(p, IF get_data_missing(db_sensor) THEN Finish(c, HTTP404) ELSE c)
  /\ ops' = ops + 1
  /\ disturbed' = [disturbed EXCEPT ![p] = FALSE]
  /\ UNCHANGED <<identity, nextId, catalog, cache, lastWrite, created, raced, deleted>>

\* redis.get, decode, json.loads, the two item assignments, return
GetDataRead(p) ==
  /\ call[p].op = "get_data" /\ call[p].pc = "redis_get"
  /\ call' = Step(p,
                Finish(Issue(call[p], "redis.get"),
                       get_data_read(call[p].db_sensor,
                                     redis_get(cache, Key(call[p].sensor_id)))))
  /\ UNCHANGED <<identity, nextId, catalog, cache, ops, lastWrite, created, disturbed, raced, deleted>>

\* ------------------------------------------------------------ get_sensors_near
\* get_sensor(...).__dict__ of a row
row_dict(db_sensor) ==
  [id |-> db_sensor.id, name |-> db_sensor.name, _sa_instance_state |-> "InstanceState"]

\* an insert at the front instead of the append
append_front(sensors, sensor) == <<sensor>> \o sensors

\* sensors.append(sensor)
append(sensors, sensor) == Append(sensors, sensor)

\* a query point with the latitude first
near_point_latitude_first(latitude, longitude) == <<latitude, longitude>>

\* "$geometry": {"type": "Point", "coordinates": [longitude, latitude]}
near_point(latitude, longitude) == <<longitude, latitude>>

\* create_index and collection.find: the documents in range, nearest first
GetSensorsNearQuery(p) ==
  /\ CanStart(p)
  /\ \E pt \in Points, radius \in Radii :
       LET latitude == pt[2]
           longitude == pt[1]
           nearby_sensors == find_near(catalog, near_point(latitude, longitude), radius)
           c == Issue([Idle EXCEPT !.op = "get_sensors_near", !.pc = "get_sensor",
                                   !.query = [latitude |-> latitude, longitude |-> longitude,
                                              radius |-> radius,
                                              coordinates |-> near_point(latitude, longitude)],
                                   !.nearby_sensors = nearby_sensors, !.i = 1],
                      "find")
       IN call' = Step(p,
                     IF nearby_sensors = <<>> THEN Finish(c, Return(<<>>)) ELSE c)
  /\ ops' = ops + 1
  /\ disturbed' = [disturbed EXCEPT ![p] = FALSE]
  /\ UNCHANGED <<identity, nextId, catalog, cache, lastWrite, created, raced, deleted>>

\* sensor = get_sensor(db, doc["id_sensor"]).__dict__
GetSensorsNearSensor(p) ==
  /\ call[p].op = "get_sensors_near" /\ call[p].pc = "get_sensor"
  /\ LET doc == call[p].nearby_sensors[call[p].i]
         db_sensor == get_sensor(identity, doc.id_sensor)
         c == Issue(call[p], "db.query")
     IN call' = Step(p,
                   IF db_sensor = None THEN Finish(c, AttributeError("__dict__"))
                   ELSE [c EXCEPT !.pc = "get_data", !.sensor_dict = row_dict(db_sensor)])
  /\ UNCHANGED <<identity, nextId, catalog, cache, ops, lastWrite, created, disturbed, raced, deleted>>

\* get_data(redis, doc["id_sensor"], db), its lookup and 404 check
GetSensorsNearLookup(p) ==
  /\ call[p].op = "get_sensors_near" /\ call[p].pc = "get_data"
  /\ LET doc == call[p].nearby_sensors[call[p].i]
         db_sensor == get_sensor(identity, doc.id_sensor)
         c == Issue(call[p], "db.query")
     IN call' = Step(p,
                   IF get_data_missing(db_sensor) THEN Finish(c, HTTP404)
                   ELSE [c EXCEPT !.pc = "redis_get", !.db_sensor = db_sensor])
  /\ UNCHANGED <<identity, nextId, catalog, cache, ops, lastWrite, created, disturbed, raced, deleted>>

\* the rest of get_data, then the merge and the append; after the last document, return
GetSensorsNearRead(p) ==
  /\ call[p].op = "get_sensors_near" /\ call[p].pc = "redis_get"
  /\ LET c == Issue(call[p], "redis.get")
         doc == c.nearby_sensors[c.i]
         sensor_redis == get_data_read(c.db_sensor, redis_get(cache, Key(doc.id_sensor)))
         sensors == append(c.sensors, Merge(c.sensor_dict, sensor_redis.value))
     IN call' = Step(p,
                   IF sensor_redis.kind = "raise" THEN Finish(c, sensor_redis)
                   ELSE IF c.i = Len(c.nearby_sensors) THEN Finish(c, Return(sensors))
                   ELSE [c EXCEPT !.pc = "get_sensor", !.i = c.i + 1, !.sensors = sensors,
                                  !.sensor_dict = <<>>, !.db_sensor = None])
  /\ UNCHANGED <<identity, nextId, catalog, cache, ops, lastWrite, created, disturbed, raced, deleted>>

\* ------------------------------------------------------------ delete_sensor
\* a delete_sensor that goes from the cache straight to the row
delete_sensor_skip_catalog(issued) ==
  IF issued = "redis.delete" THEN "query" ELSE "commit"

\* the statement delete_sensor goes to after the store call it has issued
delete_sensor_then(issued) ==
  IF issued = "redis.delete" THEN "delete_one"
  ELSE IF issued = "delete_one" THEN "query"
  ELSE "commit"

\* redis.delete(f"sensor:{sensor_id}:data")
DeleteSensorRedis(p) ==
  /\ CanStart(p)
  /\ \E sensor_id \in SensorIds :
       /\ cache' = redis_delete(cache, Key(sensor_id))
       /\ lastWrite' = [lastWrite EXCEPT ![sensor_id] = <<>>]
       /\ call' = Step(p,
                     Issue([Idle EXCEPT !.op = "delete_sensor",
                                        !.pc = delete_sensor_then("redis.delete"),
                                        !.sensor_id = sensor_id, !.had = Holding(sensor_id)],
                           "redis.delete"))
       /\ disturbed' = [Touch(p, sensor_id) EXCEPT ![p] = FALSE]
       /\ raced' = Race(p, sensor_id)
  /\ ops' = ops + 1
  /\ UNCHANGED <<identity, nextId, catalog, created, deleted>>

\* mongodb_client.collection.delete_one({"id_sensor": sensor_id})
DeleteSensorMongo(p) ==
  /\ call[p].op = "delete_sensor" /\ call[p].pc = "delete_one"
  /\ catalog' = delete_one(catalog, call[p].sensor_id)
  /\ call' = Step(p, [Issue(call[p], "delete_one") EXCEPT
                         !.pc = delete_sensor_then("delete_one")])
  /\ disturbed' = Touch(p, call[p].sensor_id)
  /\ UNCHANGED <<identity, nextId, cache, ops, lastWrite, created, raced, deleted>>

\* if db_sensor is None (delete_sensor)
delete_sensor_missing(db_sensor) == db_sensor = None

\* a db.delete that is never committed: the row stays
db_delete_uncommitted(db, db_sensor) == db

\* db.delete(db_sensor); db.commit()
db_delete(db, db_sensor) == [id \in DOMAIN db \ {db_sensor.id} |-> db[id]]

\* db.query(models.Sensor).filter(...).first(); 404 when there is no row
DeleteSensorQuery(p) ==
  /\ call[p].op = "delete_sensor" /\ call[p].pc = "query"
  /\ LET db_sensor == get_sensor(identity, call[p].sensor_id)
         c == Issue(call[p], "db.query")
     IN call' = Step(p,
                   IF delete_sensor_missing(db_sensor) THEN Finish(c, HTTP404)
                   ELSE [c EXCEPT !.pc = delete_sensor_then("db.query"),
                                  !.db_sensor = db_sensor])
  /\ UNCHANGED <<identity, nextId, catalog, cache, ops, lastWrite, created, disturbed, raced, deleted>>

\* db.delete(db_sensor); db.commit(); return db_sensor
DeleteSensorCommit(p) ==
  /\ call[p].op = "delete_sensor" /\ call[p].pc = "commit"
  /\ identity' = db_delete(identity, call[p].db_sensor)
  /\ call' = Step(p, Finish(Issue(call[p], "db.commit"), Return(call[p].db_sensor)))
  /\ disturbed' = Touch(p, call[p].sensor_id)
  /\ deleted' = deleted \cup {call[p].sensor_id}
  /\ UNCHANGED <<nextId, catalog, cache, ops, lastWrite, created, raced>>

\* ------------------------------------------------------------ specification
Next ==
  \/ \E p \in Clients : CreateSensorCommit(p)
  \/ \E p \in Clients : CreateSensorInsert(p)
  \/ \E p \in Clients : RecordData(p)
  \/ \E p \in Clients : GetDataLookup(p)
  \/ \E p \in Clients : GetDataRead(p)
  \/ \E p \in Clients : GetSensorsNearQuery(p)
  \/ \E p \in Clients : GetSensorsNearSensor(p)
  \/ \E p \in Clients : GetSensorsNearLookup(p)
  \/ \E p \in Clients : GetSensorsNearRead(p)
  \/ \E p \in Clients : DeleteSensorRedis(p)
  \/ \E p \in Clients : DeleteSensorMongo(p)
  \/ \E p \in Clients : DeleteSensorQuery(p)
  \/ \E p \in Clients : DeleteSensorCommit(p)

Spec == Init /\ [][Next]_vars

\* ------------------------------------------------------------ failing store calls
\* the exception a store client raises when its call fails
StoreError(name) == Raise("StoreError", 0, name)

\* request c issues the store call named name and the call fails
Failing(c, name) == [Issue(c, name) EXCEPT !.failed = name]

\* a failed store call that is passed over: the function goes on
raised_swallowed(c, name) == c

\* no function catches an exception of a store call: the request ends with it
raised(c, name) == Finish(c, StoreError(name))

\* the first store call of a new request c of client p fails
FailsFirst(p, c, name) ==
  /\ CanStart(p)
  /\ call' = Step(p, raised(Failing(c, name), name))
  /\ ops' = ops + 1
  /\ disturbed' = [disturbed EXCEPT ![p] = FALSE]
  /\ UNCHANGED <<identity, nextId, catalog, cache, lastWrite, created, raced, deleted>>

\* the store call the running request of client p is at fails
FailsNext(p, op, pc, name) ==
  /\ call[p].op = op /\ call[p].pc = pc
  /\ call' = Step(p, raised(Failing(call[p], name), name))
  /\ UNCHANGED <<identity, nextId, catalog, cache, ops, lastWrite, created, disturbed, raced, deleted>>

\* db.commit() of create_sensor fails: no row
CreateSensorCommitFails(p) ==
  \E sensor \in SensorCreate :
    FailsFirst(p, [Idle EXCEPT !.op = "create_sensor", !.pc = "commit", !.sensor = sensor],
               "db.commit")

\* insert_one fails after the row is committed
CreateSensorInsertFails(p) == FailsNext(p, "create_sensor", "insert_one", "insert_one")

\* redis.set fails
RecordDataFails(p) ==
  \E sensor_id \in SensorIds, data \in SensorData :
    FailsFirst(p, [Idle EXCEPT !.op = "record_data", !.pc = "redis_set",
                               !.sensor_id = sensor_id, !.data = data], "redis.set")

\* the query of get_sensor fails in get_data
GetDataLookupFails(p) ==
  \E sensor_id \in SensorIds :
    FailsFirst(p, [Idle EXCEPT !.op = "get_data", !.pc = "query", !.sensor_id = sensor_id],
               "db.query")

\* redis.get fails in get_data
GetDataReadFails(p) == FailsNext(p, "get_data", "redis_get", "redis.get")

\* redis.delete fails
DeleteSensorRedisFails(p) ==
  \E sensor_id \in SensorIds :
    FailsFirst(p, [Idle EXCEPT !.op = "delete_sensor", !.pc = "redis_delete",
                               !.sensor_id = sensor_id, !.had = Holding(sensor_id)],
               "redis.delete")

\* delete_one fails after the cache entry is gone
DeleteSensorMongoFails(p) == FailsNext(p, "delete_sensor", "delete_one", "delete_one")

\* the row query of delete_sensor fails
DeleteSensorQueryFails(p) == FailsNext(p, "delete_sensor", "query", "db.query")

\* db.commit() of delete_sensor fails: the row stays
DeleteSensorCommitFails(p) == FailsNext(p, "delete_sensor", "commit", "db.commit")

\* the functions that write a store, each store call succeeding or failing;
\* get_sensors_near writes no store and is left to Spec
NextFail ==
  \/ \E p \in Clients : CreateSensorCommit(p)
  \/ \E p \in Clients : CreateSensorInsert(p)
  \/ \E p \in Clients : RecordData(p)
  \/ \E p \in Clients : GetDataLookup(p)
  \/ \E p \in Clients : GetDataRead(p)
  \/ \E p \in Clients : DeleteSensorRedis(p)
  \/ \E p \in Clients : DeleteSensorMongo(p)
  \/ \E p \in Clients : DeleteSensorQuery(p)
  \/ \E p \in Clients : DeleteSensorCommit(p)
  \/ \E p \in Clients : CreateSensorCommitFails(p)
  \/ \E p \in Clients : CreateSensorInsertFails(p)
  \/ \E p \in Clients : RecordDataFails(p)
  \/ \E p \in Clients : GetDataLookupFails(p)
  \/ \E p \in Clients : GetDataReadFails(p)
  \/ \E p \in Clients : DeleteSensorRedisFails(p)
  \/ \E p \in Clients : DeleteSensorMongoFails(p)
  \/ \E p \in Clients : DeleteSensorQueryFails(p)
  \/ \E p \in Clients : DeleteSensorCommitFails(p)

\* the empty stores, no request running
InitFail ==
  /\ InitEmpty
  /\ call = [p \in Clients |-> Idle]
  /\ ops = 0
  /\ disturbed = [p \in Clients |-> FALSE]
  /\ raced = {}
  /\ deleted = {}

SpecFail == InitFail /\ [][NextFail]_vars

\* ------------------------------------------------------------ claims
HasDoc(id) == \E n \in DOMAIN catalog : catalog[n].id_sensor = id
Done(p, op) == call[p].op = op /\ call[p].pc = "done"

\* C1 (as claimed): in every reachable state every catalog document's id_sensor and
\* every cache key's sensor id is the id of a row that exists in the identity table.
C1_StoresReferenceIdentity ==
  /\ \A n \in DOMAIN catalog : catalog[n].id_sensor \in DOMAIN identity
  /\ \A k \in DOMAIN cache : k[2] \in DOMAIN identity

\* C1 (amended): every catalog document's id_sensor is the id of a row that exists, or
\* of a row that a delete_sensor running concurrently with its create_sensor removed;
\* the cache keys are sensor keys of any id, created or not.
C1_CatalogReferencesIdentityUnlessRaced ==
  /\ \A n \in DOMAIN catalog :
       \/ catalog[n].id_sensor \in DOMAIN identity
       \/ catalog[n].id_sensor \in raced /\ catalog[n].id_sensor \in DOMAIN created
  /\ \A k \in DOMAIN cache : \E id \in SensorIds : k = Key(id)

\* C1 witness: an orphan document left by the race, beside a reading under an id without a row
C1_Witness ==
  /\ \E n \in DOMAIN catalog : catalog[n].id_sensor \notin DOMAIN identity
  /\ \E k \in DOMAIN cache : k[2] \notin DOMAIN identity

\* C2: a get_data that starts on an id without a row ends at once with the 404, whatever
\* the cache holds under the id, and returns no view.
C2_GetDataNotFound ==
  [][\A p \in Clients : \A id \in SensorIds :
       (/\ ~Running(p)
        /\ ops' = ops + 1
        /\ call'[p].op = "get_data" /\ call'[p].sensor_id = id
        /\ id \notin DOMAIN identity)
       => call'[p].pc = "done" /\ call'[p].result = HTTP404]_vars

\* C2 witness: a 404 from get_data while the cache holds a reading under the id
C2_Witness ==
  \E p \in Clients :
    /\ Done(p, "get_data") /\ call[p].result = HTTP404
    /\ Key(call[p].sensor_id) \in DOMAIN cache
    /\ call[p].sensor_id \in DOMAIN created

\* C3 (as claimed): get_data on a sensor with a row and no cache entry ends with a
\* NoReadingYet failure of its own, which is neither the 404 nor the parse failure.
C3_NoReadingYet ==
  \A p \in Clients :
    (/\ Done(p, "get_data")
     /\ call[p].db_sensor # None
     /\ Key(call[p].sensor_id) \notin DOMAIN cache)
    => /\ call[p].result.kind = "raise"
       /\ call[p].result.exc = "NoReadingYet"

\* C4: a get_data that reads the cache while payload P is the last one recorded under
\* the id returns P's fields unchanged, but id and name, which are the row's, and nothing else.
C4_RecordThenGet ==
  [][\A p \in Clients :
       (/\ call[p].op = "get_data" /\ call[p].pc = "redis_get"
        /\ call'[p].pc = "done"
        /\ Len(lastWrite[call[p].sensor_id]) > 0)
       => LET id == call[p].sensor_id
              P == lastWrite[id][1]
              r == call'[p].result
          IN /\ r.kind = "return"
             /\ DOMAIN r.value = DOMAIN P \cup {"id", "name"}
             /\ r.value["id"] = id
             /\ r.value["name"] = created[id]
             /\ \A k \in DOMAIN P \ {"id", "name"} : r.value[k] = P[k]]_vars

\* C4 witness: a view returned for a payload that itself carries id and name
C4_Witness ==
  \E p \in Clients :
    /\ Done(p, "get_data") /\ call[p].result.kind = "return"
    /\ Len(lastWrite[call[p].sensor_id]) > 0
    /\ "name" \in DOMAIN lastWrite[call[p].sensor_id][1]
    /\ call[p].result.value["name"] \in {"s1", "s2"}

\* C5: the cache holds one text per sensor key, and it is always the whole payload of
\* the last record_data on that id: nothing of an earlier payload survives.
C5_LastWriteWins ==
  /\ \A id \in SensorIds :
       Key(id) \in DOMAIN cache
         => /\ Len(lastWrite[id]) > 0
            /\ IsJson(cache[Key(id)])
            /\ json_loads(cache[Key(id)]) = lastWrite[id][1]
  /\ \A p \in Clients :
       Done(p, "record_data") => json_loads(cache[Key(call[p].sensor_id)]) = call[p].data

\* C5 witness: a record_data has replaced a reading with humidity, which a running
\* get_sensors_near had read before, by a payload without it
C5_Witness ==
  \E p, q \in Clients :
    /\ Done(p, "record_data")
    /\ "humidity" \notin DOMAIN call[p].data
    /\ "humidity" \notin DOMAIN json_loads(cache[Key(call[p].sensor_id)])
    /\ call[q].op = "get_sensors_near" /\ Len(call[q].sensors) > 0
    /\ call[q].sensors[1]["id"] = call[p].sensor_id
    /\ "humidity" \in DOMAIN call[q].sensors[1]

\* the sensor ids of a list of views
ViewIds(views) == [n \in DOMAIN views |-> views[n]["id"]]
\* the id_sensor values of a list of documents
DocIds(docs) == [n \in DOMAIN docs |-> docs[n].id_sensor]

\* a is b with some elements left out, the others in b's order
RECURSIVE IsSubseq(_, _)
IsSubseq(a, b) ==
  IF a = <<>> THEN TRUE
  ELSE IF b = <<>> THEN FALSE
  ELSE IF Head(a) = Head(b) THEN IsSubseq(Tail(a), Tail(b))
  ELSE IsSubseq(a, Tail(b))

\* the document a finished get_sensors_near was working on, if any
AtDoc(p) == call[p].i \in DOMAIN call[p].nearby_sensors
DocId(p) == call[p].nearby_sensors[call[p].i].id_sensor

\* C6 (as claimed): a get_sensors_near that meets a document whose id_sensor has no
\* row leaves the document out and still returns the other entries.
C6_OrphanSkipped ==
  \A p \in Clients :
    (/\ Done(p, "get_sensors_near") /\ AtDoc(p)
     /\ DocId(p) \notin DOMAIN identity
     /\ call[p].result.detail # "decode")
    => /\ call[p].result.kind = "return"
       /\ \A n \in DOMAIN call[p].result.value : call[p].result.value[n]["id"] # DocId(p)

\* C7 (as claimed): a get_sensors_near that meets a sensor with a row and no cache
\* entry returns, and its output has an entry for the sensor.
C7_MissingReadingIncluded ==
  \A p \in Clients :
    (/\ Done(p, "get_sensors_near") /\ AtDoc(p)
     /\ DocId(p) \in DOMAIN identity
     /\ Key(DocId(p)) \notin DOMAIN cache)
    => /\ call[p].result.kind = "return"
       /\ \E n \in DOMAIN call[p].result.value : call[p].result.value[n]["id"] = DocId(p)

\* C8: the ids a get_sensors_near returns are, in order and without repetition, among
\* the id_sensor values its query returned; an empty query result returns the empty list.
C8_OutputFollowsQuery ==
  \A p \in Clients :
    Done(p, "get_sensors_near")
      => /\ call[p].result.kind = "return"
           => LET out == ViewIds(call[p].result.value)
              IN /\ IsSubseq(out, DocIds(call[p].nearby_sensors))
                 /\ \A m, n \in DOMAIN out : out[m] = out[n] => m = n
         /\ call[p].nearby_sensors = <<>>
           => call[p].result.kind = "return" /\ call[p].result.value = <<>>

\* C8 witness: two entries returned, the nearer sensor first though it was created last
C8_Witness ==
  \E p \in Clients :
    /\ Done(p, "get_sensors_near") /\ call[p].result.kind = "return"
    /\ ViewIds(call[p].result.value) = <<2, 1>>

\* C9 (as claimed): a delete_sensor that ends with the 404 leaves no cache entry and no
\* catalog document under its id when it returns.
C9_NotFoundLeavesNothing ==
  \A p \in Clients :
    (Done(p, "delete_sensor") /\ call[p].result.kind = "raise")
    => /\ call[p].result = HTTP404
       /\ Key(call[p].sensor_id) \notin DOMAIN cache
       /\ ~HasDoc(call[p].sensor_id)

\* C9 (amended): a delete_sensor on an id without a row ends with the 404; when no
\* other request wrote under the id while it ran, no cache entry and no catalog
\* document under the id is left when it returns.
C9_NotFoundLeavesNothingUndisturbed ==
  \A p \in Clients :
    Done(p, "delete_sensor")
      => /\ call[p].result.kind = "raise" => call[p].result = HTTP404
         /\ ~disturbed[p]
              => /\ "identity" \notin call[p].had => call[p].result.kind = "raise"
                 /\ call[p].result.kind = "raise"
                      => /\ Key(call[p].sensor_id) \notin DOMAIN cache
                         /\ ~HasDoc(call[p].sensor_id)
                         /\ call[p].sensor_id \notin DOMAIN identity

\* C9 witness: the 404 after a stray document, or a stray cache entry, was removed
C9_Witness ==
  \E p \in Clients :
    /\ Done(p, "delete_sensor") /\ call[p].result = HTTP404
    /\ ~disturbed[p]
    /\ call[p].had = {"catalog"}

\* C10: a delete_sensor of a sensor that has a row, with no other request writing under
\* the id meanwhile, returns the row's id and name and leaves nothing under the id in
\* any of the three stores.
C10_DeleteRemovesAll ==
  \A p \in Clients :
    (Done(p, "delete_sensor") /\ ~disturbed[p] /\ "identity" \in call[p].had)
    => /\ call[p].result.kind = "return"
       /\ call[p].result.value =
            [id |-> call[p].sensor_id, name |-> created[call[p].sensor_id]]
       /\ Holding(call[p].sensor_id) = {}

\* C10 witness: a sensor with row, document and reading deleted
C10_Witness ==
  \E p \in Clients :
    /\ Done(p, "delete_sensor") /\ call[p].result.kind = "return"
    /\ ~disturbed[p]
    /\ call[p].had = {"identity", "catalog", "cache"}

\* the step is one of client p's own: it starts a request or moves its request on
Acts(p) ==
  /\ call'[p].pc # "idle"
  /\ call'[p].pc # call[p].pc \/ (ops' # ops /\ ~Running(p))

\* C12 (as claimed): under any interleaving of create_sensor and delete_sensor, every
\* catalog document's id_sensor is the id of a row that exists.
C12_NoCatalogOrphan ==
  \A n \in DOMAIN catalog : catalog[n].id_sensor \in DOMAIN identity

\* C12 (amended): a catalog document whose id_sensor has no row is one whose row was
\* committed by create_sensor and removed by a delete_sensor that ran while that
\* create_sensor ran; create_sensor itself inserts only under the id of the row it committed.
C12_NoCatalogOrphanUnlessRaced ==
  /\ \A n \in DOMAIN catalog :
       catalog[n].id_sensor \notin DOMAIN identity
         => /\ catalog[n].id_sensor \in raced
            /\ catalog[n].id_sensor \in DOMAIN created
            /\ catalog[n].id_sensor < nextId
  /\ \A p \in Clients :
       Done(p, "create_sensor") /\ call[p].result.kind = "return"
         => /\ HasDoc(call[p].result.value.id)
            /\ call[p].result.value.id \in DOMAIN identity \cup raced

\* C12 witness: a create_sensor returns after a concurrent delete_sensor removed its row
C12_Witness ==
  \E p \in Clients :
    /\ Done(p, "create_sensor") /\ call[p].result.kind = "return"
    /\ call[p].result.value.id \notin DOMAIN identity
    /\ HasDoc(call[p].result.value.id)

\* C13: record_data on any id, with or without a row, stores the payload under the
\* id's key and returns; it never raises the 404 and changes neither rows nor documents.
C13_RecordDataUnchecked ==
  [][\A p \in Clients :
       (Acts(p) /\ call'[p].op = "record_data")
       => LET id == call'[p].sensor_id
          IN /\ call'[p].pc = "done"
             /\ call'[p].result.kind = "return"
             /\ <<"sensor", id, "data">> \in DOMAIN cache'
             /\ json_loads(cache'[<<"sensor", id, "data">>]) = call'[p].data
             /\ identity' = identity
             /\ catalog' = catalog]_vars

\* C13 witness: a payload stored under an id that never had a row
C13_Witness ==
  \E p \in Clients :
    /\ Done(p, "record_data") /\ call[p].result.kind = "return"
    /\ call[p].sensor_id \notin DOMAIN created
    /\ Key(call[p].sensor_id) \in DOMAIN cache

\* C14: the document create_sensor inserts carries the id it returns and the
\* coordinates [longitude, latitude] of its input, and get_sensors_near queries with
\* the point [longitude, latitude] of its input.
C14_LongitudeFirst ==
  /\ \A p \in Clients :
       Done(p, "create_sensor") /\ call[p].result.kind = "return"
         => \E n \in DOMAIN catalog :
              /\ catalog[n].id_sensor = call[p].result.value.id
              /\ catalog[n].location.coordinates[1] = call[p].sensor.longitude
              /\ catalog[n].location.coordinates[2] = call[p].sensor.latitude
              /\ Len(catalog[n].location.coordinates) = 2
  /\ \A p \in Clients :
       call[p].op = "get_sensors_near"
         => /\ call[p].query.coordinates[1] = call[p].query.longitude
            /\ call[p].query.coordinates[2] = call[p].query.latitude
            /\ Len(call[p].query.coordinates) = 2
            /\ call[p].pc # "done"
                 => \A n \in DOMAIN call[p].nearby_sensors :
                      Dist2(call[p].nearby_sensors[n].location.coordinates,
                            <<call[p].query.longitude, call[p].query.latitude>>)
                        <= call[p].query.radius * call[p].query.radius

\* C14 witness: a sensor created off the diagonal is found from a query point off the
\* diagonal, and the create_sensor that made a sensor off the diagonal has returned
C14_Witness ==
  /\ \E p \in Clients :
       /\ Done(p, "create_sensor") /\ call[p].result.kind = "return"
       /\ call[p].sensor.longitude # call[p].sensor.latitude
  /\ \E p \in Clients :
       /\ call[p].op = "get_sensors_near" /\ call[p].pc # "done"
       /\ call[p].query.longitude # call[p].query.latitude
       /\ \E n \in DOMAIN call[p].nearby_sensors :
            call[p].nearby_sensors[n].location.coordinates[1]
              # call[p].nearby_sensors[n].location.coordinates[2]

\* C15: within one delete_sensor the store calls are issued in the order cache delete,
\* catalog delete, row lookup, row delete: the cache delete changes no other store, the
\* lookup comes only after both deletes, and the row goes only after all three.
C15_DeleteOrder ==
  [][\A p \in Clients :
       (Acts(p) /\ call'[p].op = "delete_sensor")
       => LET order == <<"redis.delete", "delete_one", "db.query", "db.commit">>
              was == IF call[p].op = "delete_sensor" /\ Running(p) THEN call[p].issued ELSE <<>>
              now == call'[p].issued
          IN /\ Len(now) = Len(was) + 1
             /\ Len(now) <= Len(order)
             /\ \A n \in DOMAIN now : now[n] = order[n]
             /\ now[Len(now)] = "redis.delete" => identity' = identity /\ catalog' = catalog
             /\ now[Len(now)] = "delete_one" => identity' = identity /\ cache' = cache
             /\ now[Len(now)] = "db.query"
                  => identity' = identity /\ cache' = cache /\ catalog' = catalog
             /\ identity' # identity
                  => was = <<"redis.delete", "delete_one", "db.query">>]_vars

\* C15 witness: a delete_sensor has removed the row as its fourth store call
C15_Witness ==
  \E p \in Clients :
    /\ Done(p, "delete_sensor") /\ call[p].result.kind = "return"
    /\ call[p].issued = <<"redis.delete", "delete_one", "db.query", "db.commit">>
    /\ "identity" \in call[p].had
    /\ call[p].sensor_id \notin DOMAIN identity

\* C11: create_sensor commits the row before it attempts the catalog insert; when the
\* insert fails the request ends with the failure and the row stays, with no catalog
\* document; when the commit fails the request ends there and no document is written.
C11_CreatePartialFailure ==
  [][\A p \in Clients :
       (Acts(p) /\ call'[p].op = "create_sensor")
       => LET c == call'[p]
              id == c.db_sensor.id
          IN /\ (c.issued = <<"db.commit">> /\ c.failed = "")
                  => /\ c.pc = "insert_one"
                     /\ id \notin DOMAIN identity
                     /\ id \in DOMAIN identity' /\ identity'[id] = c.sensor.name
                     /\ catalog' = catalog
             /\ c.failed = "insert_one"
                  => /\ c.pc = "done" /\ c.result = StoreError("insert_one")
                     /\ c.issued = <<"db.commit", "insert_one">>
                     /\ identity' = identity /\ catalog' = catalog
                     /\ id \notin raced'
                          => /\ id \in DOMAIN identity'
                             /\ \A n \in DOMAIN catalog' : catalog'[n].id_sensor # id
             /\ c.failed = "db.commit"
                  => /\ c.pc = "done" /\ c.result = StoreError("db.commit")
                     /\ c.issued = <<"db.commit">>
                     /\ identity' = identity /\ catalog' = catalog
             /\ c.failed \in {"", "insert_one", "db.commit"}
             /\ (Len(c.issued) = 2 /\ c.failed = "")
                  => /\ c.pc = "done" /\ c.result = Return(c.db_sensor)
                     /\ identity' = identity
                     /\ catalog' = Append(catalog, document_sensor_data(c.db_sensor, c.sensor))]_vars

\* C11 witness: the insert has failed and the row is there with no document
C11_Witness ==
  \E p \in Clients :
    /\ Done(p, "create_sensor") /\ call[p].failed = "insert_one"
    /\ call[p].db_sensor.id \in DOMAIN identity
    /\ ~HasDoc(call[p].db_sensor.id)

\* C16: in create_sensor, record_data, get_data and delete_sensor no store call is issued
\* twice by one request, and a store call that fails ends the request with that failure
\* at that call, with no store changed by the step and no later store call; a delete_sensor
\* whose catalog delete fails leaves the row in place with the cache entry gone.
C16_NoRetryNoSwallow ==
  [][\A p \in Clients :
       (Acts(p) /\ call'[p].op \in {"create_sensor", "record_data", "get_data", "delete_sensor"})
       => LET c == call'[p]
          IN /\ \A m, n \in DOMAIN c.issued : m # n => c.issued[m] # c.issued[n]
             /\ Running(p) => call[p].failed = ""
             /\ Running(p) => /\ Len(c.issued) = Len(call[p].issued) + 1
                              /\ \A n \in DOMAIN call[p].issued : c.issued[n] = call[p].issued[n]
             /\ ~Running(p) => Len(c.issued) = 1
             /\ c.failed # ""
                  => /\ c.pc = "done"
                     /\ c.result = StoreError(c.failed)
                     /\ c.issued[Len(c.issued)] = c.failed
                     /\ identity' = identity /\ catalog' = catalog /\ cache' = cache
             /\ (c.op = "delete_sensor" /\ c.failed = "delete_one" /\ ~disturbed'[p])
                  => /\ <<"sensor", c.sensor_id, "data">> \notin DOMAIN cache'
                     /\ "identity" \in c.had => c.sensor_id \in DOMAIN identity']_vars

\* C16 witness: the catalog delete has failed; the cache entry is gone and the row stays
C16_Witness ==
  \E p \in Clients :
    /\ Done(p, "delete_sensor") /\ call[p].failed = "delete_one"
    /\ call[p].issued = <<"redis.delete", "delete_one">>
    /\ {"identity", "cache"} \subseteq call[p].had
    /\ call[p].sensor_id \in DOMAIN identity
    /\ Key(call[p].sensor_id) \notin DOMAIN cache

\* C17: an id whose delete_sensor has returned the row never has a row again, and a
\* get_data of that id that starts afterwards ends at once with the 404, whatever the
\* cache holds under the id.
C17_GetDataAfterDelete ==
  [][/\ \A id \in deleted : id \notin DOMAIN identity /\ id \notin DOMAIN identity'
     /\ \A p \in Clients :
          (Acts(p) /\ ~Running(p) /\ call'[p].op = "get_data"
             /\ call'[p].sensor_id \in deleted)
          => /\ call'[p].pc = "done"
             /\ call'[p].result = HTTP404
             /\ cache' = cache]_vars

\* C17 witness: the 404 for an id deleted earlier, with a reading under it in the cache
C17_Witness ==
  \E p \in Clients :
    /\ Done(p, "get_data") /\ call[p].result = HTTP404
    /\ call[p].sensor_id \in deleted
    /\ Key(call[p].sensor_id) \in DOMAIN cache

\* the documents of the catalog that are not of sensor id
DocsNotOf(coll, id) == SelectSeq(coll, LAMBDA d : d.id_sensor # id)

\* C18: a step of record_data, get_data or delete_sensor on sensor i leaves the row,
\* the documents and the cache entry of every other sensor as they were, and a step of
\* get_data changes no store at all.
C18_PerSensorIsolation ==
  [][\A p \in Clients :
       (Acts(p) /\ call'[p].op \in {"record_data", "get_data", "delete_sensor"})
       => LET i == call'[p].sensor_id
          IN /\ \A j \in (DOMAIN identity \cup DOMAIN identity') \ {i} :
                  /\ j \in DOMAIN identity /\ j \in DOMAIN identity'
                  /\ identity'[j] = identity[j]
             /\ DocsNotOf(catalog', i) = DocsNotOf(catalog, i)
             /\ \A k \in (DOMAIN cache \cup DOMAIN cache') \ {<<"sensor", i, "data">>} :
                  /\ k \in DOMAIN cache /\ k \in DOMAIN cache'
                  /\ cache'[k] = cache[k]
             /\ call'[p].op = "get_data"
                  => identity' = identity /\ catalog' = catalog /\ cache' = cache]_vars

\* C18 witness: a delete_sensor has returned the row of one sensor while the other
\* sensor has its row, its document and its reading
C18_Witness ==
  \E p \in Clients :
    /\ Done(p, "delete_sensor") /\ call[p].result.kind = "return"
    /\ call[p].had = {"identity", "catalog", "cache"}
    /\ \E j \in DOMAIN identity :
         j # call[p].sensor_id /\ HasDoc(j) /\ Key(j) \in DOMAIN cache

====
